---- MODULE Spec2Model ----
(***************************************************************************)
(* gitv: the "stats" command (src/src/stats.ts).  generateStats(email)     *)
(* reads the repository registry, aggregates the commits of one author     *)
(* into a day-index -> count map, lays the map out as week columns and     *)
(* prints a calendar grid, a legend and a total.                           *)
(*                                                                         *)
(* Time is counted in hours (the code counts milliseconds; every quantity  *)
(* the code derives from a time is a multiple of one hour here).  A Date   *)
(* is modelled by its local wall-clock fields: the local calendar day      *)
(* (days since 1970-01-01) and the hour of that day.  The local time zone  *)
(* is an input of the run: its standard UTC offset and the interval of     *)
(* days whose local midnight lies in daylight-saving time.                 *)
(***************************************************************************)
EXTENDS Integers, Sequences, FiniteSets, TLC

\* ---------------------------------------------------------------- CONFIG
DAYS_IN_LAST_SIX_MONTHS == 183
WEEKS_IN_LAST_SIX_MONTHS == 26
OUT_OF_RANGE == 99999
DAYS_PER_WEEK == 7

\* CONTRIBUTION_LEVELS
LEVEL_NONE == 0
LEVEL_LOW == 3
LEVEL_MEDIUM == 6
LEVEL_HIGH == 9

\* 1000 * 60 * 60 * 24 milliseconds, in hours
MS_PER_DAY == 24

\* ---------------------------------------------------------------- bounds
\* longest repository registry
MaxRepos == 2
\* commits returned by all the git.log() calls of one run, together
MaxEvents == 2

\* ------------------------------------------------------- JavaScript numbers
\* The IEEE NaN, as a reserved code no day, hour or count ever takes.
NaN == 0 - 1000000

isNaN(x) == x = NaN

\* a + b, a - b: NaN when an operand is NaN
JsAdd(a, b) == IF isNaN(a) \/ isNaN(b) THEN NaN ELSE a + b
JsSub(a, b) == IF isNaN(a) \/ isNaN(b) THEN NaN ELSE a - b

\* Math.ceil(a / b) for b > 0
MathCeilDiv(a, b) == IF isNaN(a) THEN NaN ELSE 0 - ((0 - a) \div b)

\* Math.floor(a / b) for b > 0
MathFloorDiv(a, b) == IF isNaN(a) THEN NaN ELSE a \div b

\* a % b: the remainder takes the sign of the dividend
JsRem(a, b) ==
    IF isNaN(a) THEN NaN
    ELSE IF a >= 0 THEN a % b ELSE 0 - ((0 - a) % b)

\* a > b: false when an operand is NaN
JsGt(a, b) == ~isNaN(a) /\ ~isNaN(b) /\ a > b

\* ---------------------------------------------------------------- state
VARIABLES
    now,        \* the clock: new Date(), as [day, hour] in local time
    zone,       \* the local time zone of the process
    repos,      \* the lines of the registry file, in file order
    pc,         \* where generateStats stands
    i,          \* index in repos of the repository in flight (0: none opened)
    commits,    \* the CommitMap being filled
    inserted,   \* commits.keys(): the keys of the map in insertion order
    offset,     \* calcWeekOffset() as read at the top of fillCommitsFromRepo
    log,        \* log.all of the repository in flight
    k,          \* position of forEach in log
    retrieved,  \* what each git.log() call settled with, in call order
    out,        \* what was written to stdout, in order
    probe,      \* argument of a direct call of a method (of two renderings in
                \* a row: the clock of the first)
    result      \* what that call returned

vars == <<now, zone, repos, pc, i, commits, inserted, offset, log, k, retrieved,
          out, probe, result>>

\* ---------------------------------------------------------------- dates
Date(day, hour) == [day |-> day, hour |-> hour]

\* new Date(NaN): "Invalid Date", every field NaN
InvalidDate == Date(NaN, NaN)

\* Sunday 2026-11-01 as days since 1970-01-01 (56 years, 14 leap days, 304 days)
BaseDay == 56 * 365 + 14 + 304

\* Time zones: std is the standard UTC offset, and local midnight of a day is
\* in daylight-saving time (one hour ahead) when dstFrom <= day < dstTo.
\*   UTC               no daylight saving
\*   America/New_York  EDT until 2026-11-01 02:00 (midnight of 11-01 is EDT)
\*   Australia/Sydney  AEDT from 2026-10-04 02:00 (midnight of 10-05 is AEDT)
ZoneUTC == [std |-> 0, dstFrom |-> 0, dstTo |-> 0]
ZoneNewYork == [std |-> 0 - 5, dstFrom |-> BaseDay - 237, dstTo |-> BaseDay + 1]
ZoneSydney == [std |-> 10, dstFrom |-> BaseDay - 27, dstTo |-> BaseDay + 155]
Zones == {ZoneUTC, ZoneNewYork, ZoneSydney}

\* the zones generateStats runs in
RunZones == {ZoneUTC, ZoneNewYork}

\* hours east of UTC in force at local midnight of a day
UtcOffset(z, day) == z.std + (IF z.dstFrom <= day /\ day < z.dstTo THEN 1 ELSE 0)

\* Date.prototype.getTime(), in hours since the epoch
getTime(date) ==
    IF isNaN(date.day) THEN NaN
    ELSE date.day * MS_PER_DAY + date.hour - UtcOffset(zone, date.day)

\* Date.prototype.getDay(): Sunday = 0 .. Saturday = 6 (1970-01-01: Thursday)
getDay(date) == (date.day + 4) % DAYS_PER_WEEK

\* new Date(string): the commit's date field is a string that either parses
\* to an instant (given here by its local fields) or does not parse
NewDate(str) == IF str.parses THEN Date(str.day, str.hour) ELSE InvalidDate

\* DateCalculator.getBeginningOfDay
getBeginningOfDay(date) ==
    IF isNaN(date.day) THEN InvalidDate ELSE Date(date.day, 0)

\* DateCalculator.countDaysSinceDate
countDaysSinceDate(date) ==
    LET today == getBeginningOfDay(now)
        commitDate == getBeginningOfDay(date)
        diffTime == JsSub(getTime(today), getTime(commitDate))
        diffDays == MathCeilDiv(diffTime, MS_PER_DAY)
    IN  IF JsGt(diffDays, DAYS_IN_LAST_SIX_MONTHS) THEN OUT_OF_RANGE ELSE diffDays

\* calcWeekOffset reading the weekday of the UTC day (getUTCDay) instead of
\* the local one
calcWeekOffset_UTCDay ==
    DAYS_PER_WEEK - ((getTime(now) \div MS_PER_DAY + 4) % DAYS_PER_WEEK)

\* calcWeekOffset counting from 6 instead of 7
calcWeekOffset_FromSix == (DAYS_PER_WEEK - 1) - getDay(now)

\* DateCalculator.calcWeekOffset
calcWeekOffset == DAYS_PER_WEEK - getDay(now)

\* ---------------------------------------------------------------- CommitMap
\* A Map<number, number> is a function from its keys to their values.
EmptyMap == [x \in {} |-> 0]

MapSize(m) == Cardinality(DOMAIN m)

\* commits.get(key) || 0
MapGetOr0(m, key) == IF key \in DOMAIN m THEN m[key] ELSE 0

\* commits.set(key, value)
MapSet(m, key, value) ==
    [x \in (DOMAIN m) \cup {key} |-> IF x = key THEN value ELSE m[x]]

\* InitialCommits with the loop stopping one day early
InitialCommits_FromDay2 == [x \in 2..DAYS_IN_LAST_SIX_MONTHS |-> 0]

\* the map processAllRepositories starts from: days 183 down to 1, all 0
InitialCommits == [x \in 1..DAYS_IN_LAST_SIX_MONTHS |-> 0]

\* the keys of that map in the order the loop sets them: 183 down to 1
InitialKeys ==
    SubSeq([n \in 1..DAYS_IN_LAST_SIX_MONTHS |-> DAYS_IN_LAST_SIX_MONTHS + 1 - n],
           1, DAYS_IN_LAST_SIX_MONTHS)

\* commits.keys() after a call of commits.set that made the map m2 of a map
\* whose keys were ks: a key that is new to the map comes last
KeysAfterSet(ks, m2) ==
    LET new == (DOMAIN m2) \ { ks[n] : n \in DOMAIN ks }
    IN  IF new = {} THEN ks ELSE Append(ks, CHOOSE x \in new : TRUE)

\* the elements of a finite set of numbers, in ascending order
SetMin(S) == CHOOSE x \in S : \A y \in S : x <= y
SetMax(S) == 0 - SetMin({ 0 - x : x \in S })

Ascending(S) ==
    IF S = {} THEN << >>
    ELSE LET lo == SetMin(S)
             hi == SetMax(S)
         IN  SelectSeq([n \in 1..(hi - lo + 1) |-> lo + n - 1], LAMBDA x : x \in S)

\* Array.from(commits.values()).reduce((sum, count) => sum + count, 0):
\* the values are counts, and their sum is the number of pairs <<key, c>> with
\* 1 <= c <= m[key]
SumValues(m) ==
    Cardinality(UNION { { <<x, c>> : c \in 1..m[x] } : x \in DOMAIN m })

\* ---------------------------------------------------------------- commits
\* the author the statistics are generated for, and an address that differs
\* from it in letter case only
TargetEmail == "dev@example.com"
OtherEmail == "Dev@example.com"

\* a date string that parses to hour h of the day d days before the run's
DateString(d, h) == [parses |-> TRUE, day |-> now.day - d, hour |-> h]

\* a date string that does not parse
Unparsable == [parses |-> FALSE, day |-> 0, hour |-> 0]

\* the date strings of the commits of a run: late today, the first hour of the
\* last day of the window, the last hour of the first day outside it, tomorrow
\* (a commit dated ahead of the clock), and one that does not parse
DateStrings ==
    { DateString(0, 23),
      DateString(DAYS_IN_LAST_SIX_MONTHS, 0),
      DateString(DAYS_IN_LAST_SIX_MONTHS + 1, 23),
      DateString(0 - 1, 0),
      Unparsable }

Events ==
    [author_email : {TargetEmail}, date : DateStrings]
        \cup [author_email : {OtherEmail}, date : {DateString(0, 23), Unparsable}]

\* ProcessCommit with the author compared without regard to letter case
ProcessCommit_AnyCase(m, commit, email, off) ==
    IF commit.author_email \in {email, OtherEmail}
    THEN LET daysAgo == countDaysSinceDate(NewDate(commit.date))
         IN  IF daysAgo # OUT_OF_RANGE
             THEN LET day == JsAdd(daysAgo, off)
                  IN  MapSet(m, day, MapGetOr0(m, day) + 1)
             ELSE m
    ELSE m

\* the body of the forEach callback of fillCommitsFromRepo
ProcessCommit(m, commit, email, off) ==
    IF commit.author_email = email
    THEN LET daysAgo == countDaysSinceDate(NewDate(commit.date))
         IN  IF daysAgo # OUT_OF_RANGE
             THEN LET day == JsAdd(daysAgo, off)
                  IN  MapSet(m, day, MapGetOr0(m, day) + 1)
             ELSE m
    ELSE m

\* ---------------------------------------------------------------- output
\* One record per write to stdout.
Write(kind, val, style, text) ==
    [kind |-> kind, val |-> val, style |-> style, text |-> text]

Line(kind) == Write(kind, 0, "plain", "")

\* ---------------------------------------------------------------- GridBuilder
\* Array.prototype.sort((a, b) => a - b) as the engine the program runs on
\* (V8) computes it.  An array is a sequence; positions are counted from 0 as
\* in the engine, so position p of an array s is s[p + 1].  A comparator
\* result of NaN is read as 0, "equal": the keys on either side of a NaN key
\* are then never compared across it, and where each key ends depends on the
\* steps of the algorithm, which are followed here one by one.  A value that
\* is read more than once is bound first, by a quantifier over the set that
\* holds it alone.

\* the comparator (a, b) => a - b as sort reads it
SortCompare(a, b) ==
    LET v == JsSub(a, b)
    IN  IF isNaN(v) THEN 0 ELSE v

\* the number of wins in a row that starts galloping in a merge
kMinGallopWins == 7

RECURSIVE ComputeMinRunLength(_, _)
ComputeMinRunLength(n, r) ==
    IF n >= 64 THEN ComputeMinRunLength(n \div 2, IF n % 2 = 1 THEN 1 ELSE r)
    ELSE n + r

\* s with positions from..(to - 1) in reverse order
ReverseRange(s, from, to) ==
    SubSeq(s, 1, from)
        \o [n \in 1..(to - from) |-> s[to + 1 - n]]
        \o SubSeq(s, to + 1, Len(s))

\* CountAndMakeRun: the length of the run that starts at low, ascending or
\* strictly descending, and the array with a descending run reversed
CountAndMakeRun(s, low, high) ==
    IF low + 1 = high THEN [array |-> s, length |-> 1]
    ELSE LET isDescending == SortCompare(s[low + 2], s[low + 1]) < 0
             breaks == { p \in (low + 2)..(high - 1) :
                            IF isDescending
                            THEN SortCompare(s[p + 1], s[p]) >= 0
                            ELSE SortCompare(s[p + 1], s[p]) < 0 }
             end == IF breaks = {} THEN high ELSE SetMin(breaks)
         IN  [array |-> IF isDescending THEN ReverseRange(s, low, end) ELSE s,
              length |-> end - low]

\* the binary search of BinaryInsertionSort for the place of pivot
RECURSIVE InsertionPoint(_, _, _, _)
InsertionPoint(s, pivot, left, right) ==
    IF left >= right THEN left
    ELSE LET mid == left + (right - left) \div 2
         IN  IF SortCompare(pivot, s[mid + 1]) < 0
             THEN InsertionPoint(s, pivot, left, mid)
             ELSE InsertionPoint(s, pivot, mid + 1, right)

\* one pass of the loop of BinaryInsertionSort: the key at start is inserted
\* among the sorted keys at low..(start - 1)
InsertPivot(s, low, start) ==
    LET pivot == s[start + 1]
        left == InsertionPoint(s, pivot, low, start)
    IN  SubSeq(s, 1, left) \o << pivot >> \o SubSeq(s, left + 1, start)
            \o SubSeq(s, start + 2, Len(s))

\* the passes for the keys at from..(to - 1), by halves (the first half is
\* through before the second half starts from it)
RECURSIVE InsertPivots(_, _, _, _)
InsertPivots(s, low, from, to) ==
    IF from >= to THEN s
    ELSE IF from + 1 = to THEN InsertPivot(s, low, from)
    ELSE CHOOSE through \in
             { InsertPivots(left, low, (from + to) \div 2, to) :
                 left \in { InsertPivots(s, low, from, (from + to) \div 2) } } : TRUE

\* BinaryInsertionSort: positions low..(startArg - 1) are sorted; the keys at
\* startArg..(high - 1) are inserted one after the other
BinaryInsertionSort(s, low, startArg, high) ==
    InsertPivots(s, low, IF low = startArg THEN startArg + 1 ELSE startArg, high)

\* The galloping loop of GallopLeft and GallopRight: the offsets tried are 1,
\* 3, 7, 15, ..., that is 2^e - 1 for e = 1, 2, ..., up to the first that
\* reaches maxOfs or at which the loop condition fails; stops holds the e of
\* the offsets below maxOfs at which it fails.
GallopOffsets(stops, maxOfs) ==
    LET n == SetMin({ e \in 1..30 : 2^e - 1 >= maxOfs \/ e \in stops })
    IN  [lastOfs |-> IF n = 1 THEN 0 ELSE 2^(n - 1) - 1,
         ofs |-> IF 2^n - 1 > maxOfs THEN maxOfs ELSE 2^n - 1]

\* the closing binary search of GallopLeft
RECURSIVE GallopLeftSearch(_, _, _, _)
GallopLeftSearch(s, key, lastOfs, ofs) ==
    IF lastOfs >= ofs THEN ofs
    ELSE LET m == lastOfs + (ofs - lastOfs) \div 2
         IN  IF SortCompare(s[m + 1], key) < 0
             THEN GallopLeftSearch(s, key, m + 1, ofs)
             ELSE GallopLeftSearch(s, key, lastOfs, m)

\* GallopLeft on the whole of a sorted array s, starting at position hint:
\* the position of the leftmost place for key
GallopLeft(s, key, hint) ==
    LET length == Len(s)
        RightStops == { e \in 1..30 : /\ 2^e - 1 < length - hint
                                     /\ SortCompare(s[hint + 2^e], key) >= 0 }
        LeftStops == { e \in 1..30 : /\ 2^e - 1 < hint + 1
                                    /\ SortCompare(s[hint - 2^e + 2], key) < 0 }
    IN  IF SortCompare(s[hint + 1], key) < 0
        THEN LET g == GallopOffsets(RightStops, length - hint)
             IN  GallopLeftSearch(s, key, g.lastOfs + hint + 1, g.ofs + hint)
        ELSE LET g == GallopOffsets(LeftStops, hint + 1)
             IN  GallopLeftSearch(s, key, hint - g.ofs + 1, hint - g.lastOfs)

\* the closing binary search of GallopRight
RECURSIVE GallopRightSearch(_, _, _, _)
GallopRightSearch(s, key, lastOfs, ofs) ==
    IF lastOfs >= ofs THEN ofs
    ELSE LET m == lastOfs + (ofs - lastOfs) \div 2
         IN  IF SortCompare(key, s[m + 1]) < 0
             THEN GallopRightSearch(s, key, lastOfs, m)
             ELSE GallopRightSearch(s, key, m + 1, ofs)

\* GallopRight on the whole of a sorted array s, starting at position hint:
\* the position of the rightmost place for key
GallopRight(s, key, hint) ==
    LET length == Len(s)
        LeftStops == { e \in 1..30 : /\ 2^e - 1 < hint + 1
                                    /\ SortCompare(key, s[hint - 2^e + 2]) >= 0 }
        RightStops == { e \in 1..30 : /\ 2^e - 1 < length - hint
                                     /\ SortCompare(key, s[hint + 2^e]) < 0 }
    IN  IF SortCompare(key, s[hint + 1]) < 0
        THEN LET g == GallopOffsets(LeftStops, hint + 1)
             IN  GallopRightSearch(s, key, hint - g.ofs + 1, hint - g.lastOfs)
        ELSE LET g == GallopOffsets(RightStops, length - hint)
             IN  GallopRightSearch(s, key, g.lastOfs + hint + 1, g.ofs + hint)

Last(s) == s[Len(s)]
Front(s) == SubSeq(s, 1, Len(s) - 1)
Drop(s, n) == SubSeq(s, n + 1, Len(s))
Keep(s, n) == SubSeq(s, 1, n)

\* A merge under way.  done holds the keys already in place, ra and rb what
\* is left of run A and of run B, gallop the local minGallop and kept the one
\* stored in the sort state.  mode "one" is the loop that takes one key at a
\* time, mode "gallop" the loop that takes stretches; in mode "end" the merge
\* is through and merged holds the merged range.
Merging(mode, done, ra, rb, nofWinsA, nofWinsB, gallop, kept) ==
    [mode |-> mode, done |-> done, ra |-> ra, rb |-> rb, nofWinsA |-> nofWinsA,
     nofWinsB |-> nofWinsB, gallop |-> gallop, kept |-> kept, merged |-> << >>]

Merged(merged, minGallop) ==
    [mode |-> "end", done |-> << >>, ra |-> << >>, rb |-> << >>, nofWinsA |-> 0,
     nofWinsB |-> 0, gallop |-> minGallop, kept |-> minGallop, merged |-> merged]

\* One pass of a loop of MergeLow: run A is in the temporary array and is
\* merged with run B from the left.
MergeLowPass(g) ==
    IF g.mode = "end" THEN g
    ELSE IF g.mode = "one"
    THEN IF SortCompare(g.rb[1], g.ra[1]) < 0
         THEN IF Len(g.rb) = 1
              THEN Merged(g.done \o g.rb \o g.ra, g.kept)
              ELSE IF g.nofWinsB + 1 >= g.gallop
              THEN Merging("gallop", Append(g.done, g.rb[1]), g.ra, Tail(g.rb),
                           0, g.nofWinsB + 1, g.gallop + 1, g.kept)
              ELSE Merging("one", Append(g.done, g.rb[1]), g.ra, Tail(g.rb),
                           0, g.nofWinsB + 1, g.gallop, g.kept)
         ELSE IF Len(g.ra) = 2
              THEN Merged(g.done \o << g.ra[1] >> \o g.rb \o Tail(g.ra), g.kept)
              ELSE IF g.nofWinsA + 1 >= g.gallop
              THEN Merging("gallop", Append(g.done, g.ra[1]), Tail(g.ra), g.rb,
                           g.nofWinsA + 1, 0, g.gallop + 1, g.kept)
              ELSE Merging("one", Append(g.done, g.ra[1]), Tail(g.ra), g.rb,
                           g.nofWinsA + 1, 0, g.gallop, g.kept)
    ELSE LET minGallop == IF g.gallop > 1 THEN g.gallop - 1 ELSE 1
             winsA == GallopRight(g.ra, g.rb[1], 0)
             done1 == g.done \o Keep(g.ra, winsA)
             ra1 == Drop(g.ra, winsA)
         IN  IF winsA > 0 /\ Len(ra1) = 1
             THEN Merged(done1 \o g.rb \o ra1, minGallop)
             ELSE IF winsA > 0 /\ Len(ra1) = 0
             THEN Merged(done1 \o g.rb, minGallop)
             ELSE IF Len(g.rb) = 1
             THEN Merged(done1 \o g.rb \o ra1, minGallop)
             ELSE LET done2 == Append(done1, g.rb[1])
                      rb1 == Tail(g.rb)
                      winsB == GallopLeft(rb1, ra1[1], 0)
                      done3 == done2 \o Keep(rb1, winsB)
                      rb2 == Drop(rb1, winsB)
                  IN  IF winsB > 0 /\ Len(rb2) = 0
                      THEN Merged(done3 \o ra1, minGallop)
                      ELSE IF Len(ra1) = 2
                      THEN Merged(done3 \o << ra1[1] >> \o rb2 \o Tail(ra1), minGallop)
                      ELSE IF winsA >= kMinGallopWins \/ winsB >= kMinGallopWins
                      THEN Merging("gallop", Append(done3, ra1[1]), Tail(ra1), rb2,
                                   0, 0, minGallop, minGallop)
                      ELSE Merging("one", Append(done3, ra1[1]), Tail(ra1), rb2,
                                   0, 0, minGallop + 1, minGallop + 1)

\* One pass of a loop of MergeHigh: run B is in the temporary array and is
\* merged with run A from the right; done is the end of the merged range.
MergeHighPass(g) ==
    IF g.mode = "end" THEN g
    ELSE IF g.mode = "one"
    THEN IF SortCompare(Last(g.rb), Last(g.ra)) < 0
         THEN IF Len(g.ra) = 1
              THEN Merged(g.rb \o g.ra \o g.done, g.kept)
              ELSE IF g.nofWinsA + 1 >= g.gallop
              THEN Merging("gallop", << Last(g.ra) >> \o g.done, Front(g.ra), g.rb,
                           g.nofWinsA + 1, 0, g.gallop + 1, g.kept)
              ELSE Merging("one", << Last(g.ra) >> \o g.done, Front(g.ra), g.rb,
                           g.nofWinsA + 1, 0, g.gallop, g.kept)
         ELSE IF Len(g.rb) = 2
              THEN Merged(Front(g.rb) \o g.ra \o << Last(g.rb) >> \o g.done, g.kept)
              ELSE IF g.nofWinsB + 1 >= g.gallop
              THEN Merging("gallop", << Last(g.rb) >> \o g.done, g.ra, Front(g.rb),
                           0, g.nofWinsB + 1, g.gallop + 1, g.kept)
              ELSE Merging("one", << Last(g.rb) >> \o g.done, g.ra, Front(g.rb),
                           0, g.nofWinsB + 1, g.gallop, g.kept)
    ELSE LET minGallop == IF g.gallop > 1 THEN g.gallop - 1 ELSE 1
             winsA == Len(g.ra) - GallopRight(g.ra, Last(g.rb), Len(g.ra) - 1)
             done1 == Drop(g.ra, Len(g.ra) - winsA) \o g.done
             ra1 == Keep(g.ra, Len(g.ra) - winsA)
         IN  IF winsA > 0 /\ Len(ra1) = 0
             THEN Merged(g.rb \o done1, minGallop)
             ELSE IF Len(g.rb) = 2
             THEN Merged(Front(g.rb) \o ra1 \o << Last(g.rb) >> \o done1, minGallop)
             ELSE LET done2 == << Last(g.rb) >> \o done1
                      rb1 == Front(g.rb)
                      winsB == Len(rb1) - GallopLeft(rb1, Last(ra1), Len(rb1) - 1)
                      done3 == Drop(rb1, Len(rb1) - winsB) \o done2
                      rb2 == Keep(rb1, Len(rb1) - winsB)
                  IN  IF winsB > 0 /\ Len(rb2) = 1
                      THEN Merged(rb2 \o ra1 \o done3, minGallop)
                      ELSE IF winsB > 0 /\ Len(rb2) = 0
                      THEN Merged(ra1 \o done3, minGallop)
                      ELSE IF Len(ra1) = 1
                      THEN Merged(rb2 \o ra1 \o done3, minGallop)
                      ELSE IF winsA >= kMinGallopWins \/ winsB >= kMinGallopWins
                      THEN Merging("gallop", << Last(ra1) >> \o done3, Front(ra1), rb2,
                                   0, 0, minGallop, minGallop)
                      ELSE Merging("one", << Last(ra1) >> \o done3, Front(ra1), rb2,
                                   0, 0, minGallop + 1, minGallop + 1)

\* MergeLow, MergeHigh up to their loops: the merge under way, or the merged
\* range when a run holds one key only
MergeLow(ra, rb, minGallop) ==
    IF Len(rb) = 1 \/ Len(ra) = 1 THEN Merged(rb \o ra, minGallop)
    ELSE Merging("one", << rb[1] >>, ra, Tail(rb), 0, 0, minGallop, minGallop)

MergeHigh(ra, rb, minGallop) ==
    IF Len(ra) = 1 \/ Len(rb) = 1 THEN Merged(rb \o ra, minGallop)
    ELSE Merging("one", << Last(ra) >>, Front(ra), rb, 0, 0, minGallop, minGallop)

\* The state of a sort.  at is where it stands: "run" at the top of the loop
\* of ArrayTimSortImpl, "collapse" in the loop of MergeCollapse, "force" in
\* the loop of MergeForceCollapse, "merge" in a loop of MergeLow or
\* MergeHigh, "end" when the sort is through.  array is the array, runs the
\* stack of pending runs (each run its base and length), minGallop the
\* minGallop of the sort state, low the position the next run starts at.
\* Of a merge under way, g is its state, isLow tells MergeLow from
\* MergeHigh, head and tail are the array before and behind the range that
\* is merged, and back is where the sort stands after it.
SortState(array) ==
    [at |-> "run", array |-> array, runs |-> << >>, minGallop |-> kMinGallopWins,
     low |-> 0, minRunLength |-> ComputeMinRunLength(Len(array), 0),
     g |-> Merged(<< >>, kMinGallopWins), isLow |-> TRUE, head |-> << >>,
     tail |-> << >>, back |-> "run"]

\* One pass of the loop of ArrayTimSortImpl up to MergeCollapse: the next run
\* is found, made minRunLength long, and pushed
PushRun(st) ==
    LET remaining == Len(st.array) - st.low
        forcedRunLength ==
            IF st.minRunLength < remaining THEN st.minRunLength ELSE remaining
    IN  IF remaining = 0 THEN [st EXCEPT !.at = "force"]
        ELSE CHOOSE pushed \in
                 { LET short == run.length < st.minRunLength
                       currentRunLength == IF short THEN forcedRunLength ELSE run.length
                   IN  [st EXCEPT
                          !.array = IF short
                                    THEN BinaryInsertionSort(run.array, st.low,
                                                             st.low + run.length,
                                                             st.low + forcedRunLength)
                                    ELSE run.array,
                          !.runs = Append(@, [base |-> st.low, length |-> currentRunLength]),
                          !.low = @ + currentRunLength,
                          !.at = "collapse"] :
                   run \in { CountAndMakeRun(st.array, st.low, st.low + remaining) } } : TRUE

\* MergeAt up to the loops of MergeLow and MergeHigh: the runs at places n
\* and n + 1 of the stack become one run, the keys of run A that are in place
\* and the keys of run B that are in place stay where they are, and the merge
\* of the rest is under way (or there is nothing left to merge)
MergeAt(st, n) ==
    LET runA == st.runs[n + 1]
        runB == st.runs[n + 2]
        wholeA == SubSeq(st.array, runA.base + 1, runA.base + runA.length)
        wholeB == SubSeq(st.array, runB.base + 1, runB.base + runB.length)
        joined == [st EXCEPT
                     !.runs = SubSeq(@, 1, n)
                                \o << [base |-> runA.base,
                                       length |-> runA.length + runB.length] >>
                                \o SubSeq(@, n + 3, Len(@))]
    IN  CHOOSE next \in
            { IF skipA = runA.length THEN joined
              ELSE CHOOSE begun \in
                       { IF lengthB = 0 THEN joined
                         ELSE [joined EXCEPT
                                 !.at = "merge",
                                 !.back = st.at,
                                 !.isLow = runA.length - skipA <= lengthB,
                                 !.g = IF runA.length - skipA <= lengthB
                                       THEN MergeLow(Drop(wholeA, skipA), Keep(wholeB, lengthB),
                                                     st.minGallop)
                                       ELSE MergeHigh(Drop(wholeA, skipA), Keep(wholeB, lengthB),
                                                      st.minGallop),
                                 !.head = SubSeq(st.array, 1, runA.base + skipA),
                                 !.tail = Drop(st.array, runB.base + lengthB)] :
                         lengthB \in { GallopLeft(wholeB, Last(wholeA), runB.length - 1) } } :
                       TRUE :
              skipA \in { GallopRight(wholeA, wholeB[1], 0) } } : TRUE

\* One pass of a loop of MergeLow or MergeHigh; when the merge is through,
\* the merged range is in the array and minGallop is stored
MergePass(st) ==
    IF st.g.mode = "end"
    THEN [st EXCEPT !.array = st.head \o st.g.merged \o st.tail,
                    !.minGallop = st.g.kept,
                    !.at = st.back]
    ELSE [st EXCEPT !.g = IF st.isLow THEN MergeLowPass(@) ELSE MergeHighPass(@)]

\* the length of the pending run at place n of the stack
GetPendingRunLength(runs, n) == runs[n + 1].length

RunInvariantEstablished(runs, n) ==
    IF n < 2 THEN TRUE
    ELSE GetPendingRunLength(runs, n - 2)
            > GetPendingRunLength(runs, n - 1) + GetPendingRunLength(runs, n)

\* the place of the stack the loop of MergeCollapse merges at next, -1 when
\* the loop ends
MergeCollapse(runs) ==
    IF Len(runs) <= 1 THEN 0 - 1
    ELSE LET n == Len(runs) - 2
         IN  IF ~RunInvariantEstablished(runs, n + 1) \/ ~RunInvariantEstablished(runs, n)
             THEN IF GetPendingRunLength(runs, n - 1) < GetPendingRunLength(runs, n + 1)
                  THEN n - 1
                  ELSE n
             ELSE IF GetPendingRunLength(runs, n) <= GetPendingRunLength(runs, n + 1)
                  THEN n
                  ELSE 0 - 1

\* the place of the stack the loop of MergeForceCollapse merges at next, -1
\* when the loop ends
MergeForceCollapse(runs) ==
    IF Len(runs) <= 1 THEN 0 - 1
    ELSE LET n == Len(runs) - 2
         IN  IF n > 0 /\ GetPendingRunLength(runs, n - 1) < GetPendingRunLength(runs, n + 1)
             THEN n - 1
             ELSE n

\* One pass of the loop of MergeCollapse or of MergeForceCollapse.  When the
\* loop of MergeCollapse ends the sort is back at the top of the loop of
\* ArrayTimSortImpl, when that of MergeForceCollapse ends the sort is through.
Collapse(st) ==
    CHOOSE next \in
        { IF n < 0
          THEN [st EXCEPT !.at = IF st.at = "collapse" THEN "run" ELSE "end"]
          ELSE MergeAt(st, n) :
          n \in { IF st.at = "collapse" THEN MergeCollapse(st.runs)
                  ELSE MergeForceCollapse(st.runs) } } : TRUE

\* one step of the sort
ArrayTimSortStep(st) ==
    IF st.at = "run" THEN PushRun(st)
    ELSE IF st.at = "merge" THEN MergePass(st)
    ELSE Collapse(st)

\* n steps of the sort, by halves (the first half is through before the
\* second half starts from it); a sort that is through stays so
RECURSIVE ArrayTimSortSteps(_, _)
ArrayTimSortSteps(st, n) ==
    IF n = 0 \/ st.at = "end" THEN st
    ELSE IF n = 1 THEN ArrayTimSortStep(st)
    ELSE CHOOSE through \in
             { ArrayTimSortSteps(half, n - n \div 2) :
                 half \in { ArrayTimSortSteps(st, n \div 2) } } : TRUE

\* Array.prototype.sort((a, b) => a - b).  Every step but the steps between
\* loops, of which there are no more than five for a key, puts a key in
\* place in a merge, and no merge is longer than the array, of which there
\* are fewer than keys: the sort is through within Len(s) * (Len(s) + 5)
\* steps.
ArrayTimSort(s) ==
    IF Len(s) < 2 THEN s
    ELSE ArrayTimSortSteps(SortState(s), Len(s) * (Len(s) + 5)).array

\* GridBuilder.sortCommitKeys, on the keys of the map in insertion order
sortCommitKeys(ks) == ArrayTimSort(ks)

\* BuildStep without the fresh buffer at day-in-week 0
BuildStep_OneBuffer(acc, m, key) ==
    LET week == MathFloorDiv(key, DAYS_PER_WEEK)
        dayInWeek == JsRem(key, DAYS_PER_WEEK)
        col1 == Append(acc.col, MapGetOr0(m, key))
        cols1 == [w \in DOMAIN acc.cols |->
                    IF w \in acc.shared THEN col1 ELSE acc.cols[w]]
    IN  IF dayInWeek = 6
        THEN [cols |-> MapSet(cols1, week, col1), col |-> col1,
              shared |-> acc.shared \cup {week}]
        ELSE [cols |-> cols1, col |-> col1, shared |-> acc.shared]

\* One pass of the loop of buildColumns.  acc.cols is the ColumnMap, acc.col
\* the array the variable col refers to, and acc.shared the weeks whose entry
\* of cols is that same array: cols.set stores the array itself, so a later
\* push on it shows in the stored column.
BuildStep(acc, m, key) ==
    LET week == MathFloorDiv(key, DAYS_PER_WEEK)
        dayInWeek == JsRem(key, DAYS_PER_WEEK)
        fresh == dayInWeek = 0
        shared1 == IF fresh THEN {} ELSE acc.shared
        col1 == Append(IF fresh THEN << >> ELSE acc.col, MapGetOr0(m, key))
        cols1 == [w \in DOMAIN acc.cols |->
                    IF w \in shared1 THEN col1 ELSE acc.cols[w]]
    IN  IF dayInWeek = 6
        THEN [cols |-> MapSet(cols1, week, col1), col |-> col1,
              shared |-> shared1 \cup {week}]
        ELSE [cols |-> cols1, col |-> col1, shared |-> shared1]

\* the loop of buildColumns over keys[lo..hi], by halves (the first half is
\* computed before the second half starts from it)
RECURSIVE BuildRange(_, _, _, _, _)
BuildRange(acc, keys, m, lo, hi) ==
    IF lo > hi THEN acc
    ELSE IF lo = hi THEN BuildStep(acc, m, keys[lo])
    ELSE LET mid == (lo + hi) \div 2
             left == BuildRange(acc, keys, m, lo, mid)
         IN  IF left.shared = left.shared
             THEN BuildRange(left, keys, m, mid + 1, hi)
             ELSE acc

\* GridBuilder.buildColumns
buildColumns(keys, m) ==
    BuildRange([cols |-> EmptyMap, col |-> << >>, shared |-> {}],
               keys, m, 1, Len(keys)).cols

\* ---------------------------------------------------------------- Renderer
\* getContributionColor with the highlight kept for days that have commits
getContributionColor_TodayIfCounted(val, isToday) ==
    IF isToday /\ val # LEVEL_NONE THEN "today"
    ELSE IF val = LEVEL_NONE THEN "none"
    ELSE IF val <= LEVEL_LOW THEN "low"
    ELSE IF val <= LEVEL_MEDIUM THEN "medium"
    ELSE IF val <= LEVEL_HIGH THEN "high"
    ELSE "max"

\* getContributionColor with the boundaries of the bands exclusive
getContributionColor_Exclusive(val, isToday) ==
    IF isToday THEN "today"
    ELSE IF val = LEVEL_NONE THEN "none"
    ELSE IF val < LEVEL_LOW THEN "low"
    ELSE IF val < LEVEL_MEDIUM THEN "medium"
    ELSE IF val < LEVEL_HIGH THEN "high"
    ELSE "max"

\* Renderer.getContributionColor: the style, by the name of its band
getContributionColor(val, isToday) ==
    IF isToday THEN "today"
    ELSE IF val = LEVEL_NONE THEN "none"
    ELSE IF val <= LEVEL_LOW THEN "low"
    ELSE IF val <= LEVEL_MEDIUM THEN "medium"
    ELSE IF val <= LEVEL_HIGH THEN "high"
    ELSE "max"

\* Renderer.formatCellValue
formatCellValue(val) ==
    IF val = 0 THEN " - "
    ELSE IF val < 10 THEN " " \o ToString(val) \o " "
    ELSE IF val < 100 THEN ToString(val) \o " "
    ELSE ToString(val)

\* Renderer.printCell
printCell(val, isToday) ==
    LET v == IF isNaN(val) THEN 0 ELSE val
    IN  Write("cell", v, getContributionColor(v, isToday), formatCellValue(v))

\* Date.prototype.getMonth() in local time, for the days of 2026
getMonth(date) ==
    LET dayOfYear == date.day - (BaseDay - 304)
        starts == << 0, 31, 59, 90, 120, 151, 181, 212, 243, 273, 304, 334 >>
    IN  Cardinality({ n \in 1..12 : starts[n] <= dayOfYear }) - 1

\* toLocaleString('default', { month: 'short' })
MonthShort ==
    << "Jan", "Feb", "Mar", "Apr", "May", "Jun",
       "Jul", "Aug", "Sep", "Oct", "Nov", "Dec" >>

\* The loop of printMonthHeaders: week starts 183 days before now and moves 7
\* days a pass while it is before now; month is the month last labelled.
\* output is the line built so far: its characters, and its style, "plain"
\* while it holds padding only and "segments:gray" once a month name, which
\* chalk.gray wraps, was added to it (the padding around the names stays plain).
RECURSIVE MonthHeaderFrom(_, _, _)
MonthHeaderFrom(week, month, output) ==
    IF ~(week.day < now.day) THEN output
    ELSE IF getMonth(week) # month
         THEN MonthHeaderFrom(Date(week.day + DAYS_PER_WEEK, week.hour), getMonth(week),
                              [style |-> "segments:gray",
                               text |-> output.text \o MonthShort[getMonth(week) + 1] \o " "])
         ELSE MonthHeaderFrom(Date(week.day + DAYS_PER_WEEK, week.hour), month,
                              [style |-> output.style, text |-> output.text \o "   "])

\* Renderer.printMonthHeaders: one console.log of the line
printMonthHeaders ==
    LET week == Date(now.day - DAYS_IN_LAST_SIX_MONTHS, now.hour)
        output == MonthHeaderFrom(week, getMonth(week), [style |-> "plain", text |-> "    "])
    IN  Write("months", 0, output.style, output.text)

\* Renderer.printDayLabel
printDayLabel(day) ==
    LET dayLabels == << "   ", "Mon", "   ", "Wed", "   ", "Fri", "   " >>
    IN  Write("label", day, "gray", dayLabels[day + 1] \o " ")

\* the body of the inner loop of printGrid: the cell of week w (the code's i),
\* row j
GridCell(cols, w, j) ==
    IF w \in DOMAIN cols
    THEN LET col == cols[w]
         IN  IF w = 0 /\ j = calcWeekOffset - 1
             THEN printCell(IF j < Len(col) THEN col[j + 1] ELSE 0, TRUE)
             ELSE IF Len(col) > j
                  THEN printCell(col[j + 1], FALSE)
                  ELSE printCell(0, FALSE)
    ELSE printCell(0, FALSE)

\* writes of one row: the day label, weeks 27 down to 0, the line end
GridColumns == WEEKS_IN_LAST_SIX_MONTHS + 2
RowWrites == GridColumns + 2

\* GridRow with the weeks written from week 0 up to the most distant one
GridRow_RecentFirst(cols, j) ==
    [n \in 1..RowWrites |->
        IF n = 1 THEN printDayLabel(j)
        ELSE IF n = RowWrites THEN Line("newline")
        ELSE GridCell(cols, n - 2, j)]

GridRow(cols, j) ==
    [n \in 1..RowWrites |->
        IF n = 1 THEN printDayLabel(j)
        ELSE IF n = RowWrites THEN Line("newline")
        ELSE GridCell(cols, GridColumns + 1 - n, j)]

\* Renderer.printGrid: the month headers, then rows 6 down to 0
printGrid(cols) ==
    << printMonthHeaders >>
        \o GridRow(cols, 6) \o GridRow(cols, 5) \o GridRow(cols, 4)
        \o GridRow(cols, 3) \o GridRow(cols, 2) \o GridRow(cols, 1)
        \o GridRow(cols, 0)

\* Renderer.printLegend
printLegend ==
    << Line("legend"),
       Write("less", 0, "gray", "    Less "),
       Write("swatch", 0, "none", " - "),
       Write("gap", 0, "plain", " "),
       Write("swatch", 1, "low", " 1 "),
       Write("gap", 0, "plain", " "),
       Write("swatch", 4, "medium", " 4 "),
       Write("gap", 0, "plain", " "),
       Write("swatch", 7, "high", " 7 "),
       Write("gap", 0, "plain", " "),
       Write("swatch", 10, "max", "10+"),
       Write("more", 0, "gray", " More") >>

\* renderContributionGraph with the total taken over the columns of the grid
renderContributionGraph_GridTotal(m, ks) ==
    LET keys == sortCommitKeys(ks)
        cols == buildColumns(keys, m)
        totalCommits ==
            Cardinality({ t \in (DOMAIN cols) \X (1..DAYS_PER_WEEK) \X (1..MaxEvents) :
                            t[2] <= Len(cols[t[1]]) /\ t[3] <= cols[t[1]][t[2]] })
    IN  << Line("title") >> \o printGrid(cols) \o printLegend
            \o << Write("total", totalCommits, "plain", "") >>

\* Renderer.renderContributionGraph on a map m whose keys, in insertion
\* order, are ks
renderContributionGraph(m, ks) ==
    LET keys == sortCommitKeys(ks)
        cols == buildColumns(keys, m)
        totalCommits == SumValues(m)
    IN  << Line("title") >> \o printGrid(cols) \o printLegend
            \o << Write("total", totalCommits, "plain", "") >>

\* ---------------------------------------------------------------- run
\* The registry files of up to MaxRepos lines, up to the names of the paths:
\* line 1 holds path 1, and a line holds a path of an earlier line or the
\* next new path.  The same path may stand on several lines.
PathName(n) == "/repo" \o ToString(n)

RegistryFiles ==
    { [j \in 1..Len(s) |-> PathName(s[j])] :
        s \in { t \in UNION { [1..m -> 1..MaxRepos] : m \in 0..MaxRepos } :
                  \A j \in 1..Len(t) : \A v \in 2..t[j] :
                      \E h \in 1..(j - 1) : t[h] = v - 1 } }

SeqsUpTo(S, n) == UNION { [1..m -> S] : m \in 0..n }

RECURSIVE EventsIn(_)
EventsIn(rs) ==
    IF rs = << >> THEN 0 ELSE Len(Head(rs).all) + EventsIn(Tail(rs))

Init ==
    /\ now \in { Date(BaseDay + w, 12) : w \in 0..(DAYS_PER_WEEK - 1) }
    /\ zone \in RunZones
    /\ repos \in RegistryFiles
    /\ pc = "start"
    /\ i = 0
    /\ commits = EmptyMap
    /\ inserted = << >>
    /\ offset = 0
    /\ log = << >>
    /\ k = 0
    /\ retrieved = << >>
    /\ out = << >>
    /\ probe = InvalidDate
    /\ result = 0

\* GenerateStatsEmpty without the repos.length === 0 check: the map is
\* initialised and returned
GenerateStatsEmpty_NoCheck ==
    /\ pc = "start"
    /\ Len(repos) = 0
    /\ out' = Append(out, Line("analyzing"))
    /\ commits' = InitialCommits
    /\ inserted' = InitialKeys
    /\ pc' = "render"
    /\ UNCHANGED <<now, zone, repos, i, offset, log, k, retrieved, probe, result>>

\* StatsService.generateStats up to its await, with an empty registry:
\* processAllRepositories reports it and returns an empty map, and
\* generateStats returns because commits.size === 0
GenerateStatsEmpty ==
    /\ pc = "start"
    /\ Len(repos) = 0
    /\ out' = out \o << Line("analyzing"), Line("norepos") >>
    /\ commits' = EmptyMap
    /\ inserted' = << >>
    /\ pc' = "done"
    /\ UNCHANGED <<now, zone, repos, i, offset, log, k, retrieved, probe, result>>

\* StatsService.generateStats up to the first call of fillCommitsFromRepo:
\* the map is initialised and the first repository of the list is taken
GenerateStats ==
    /\ pc = "start"
    /\ Len(repos) # 0
    /\ out' = Append(out, Line("analyzing"))
    /\ commits' = InitialCommits
    /\ inserted' = InitialKeys
    /\ i' = 1
    /\ pc' = "log"
    /\ UNCHANGED <<now, zone, repos, offset, log, k, retrieved, probe, result>>

\* the for loop of processAllRepositories after fillCommitsFromRepo returned:
\* take the next repository, or return the map to generateStats
NextRepository ==
    IF i < Len(repos)
    THEN i' = i + 1 /\ pc' = "log"
    ELSE i' = i /\ pc' = "render"

\* LogRejected with the catch block starting the map over
LogRejected_Reset ==
    /\ pc = "log"
    /\ retrieved' = Append(retrieved, [path |-> repos[i], ok |-> FALSE, all |-> << >>])
    /\ commits' = InitialCommits
    /\ inserted' = InitialKeys
    /\ NextRepository
    /\ UNCHANGED <<now, zone, repos, offset, log, k, out, probe, result>>

\* simpleGit(repoPath) throws (the path is not a directory any more): the
\* call stands ahead of the try block, so the error leaves fillCommitsFromRepo,
\* processAllRepositories and generateStats, and the run ends with the
\* banner as its only output
SimpleGitThrows ==
    /\ pc = "log"
    /\ pc' = "failed"
    /\ UNCHANGED <<now, zone, repos, i, commits, inserted, offset, log, k, retrieved, out,
                   probe, result>>

\* git.log() rejects: the catch block swallows the error
LogRejected ==
    /\ pc = "log"
    /\ retrieved' = Append(retrieved, [path |-> repos[i], ok |-> FALSE, all |-> << >>])
    /\ NextRepository
    /\ UNCHANGED <<now, zone, repos, commits, inserted, offset, log, k, out, probe, result>>

\* git.log() resolves: the offset is read and forEach starts
LogResolved ==
    /\ pc = "log"
    /\ \E all \in SeqsUpTo(Events, MaxEvents - EventsIn(retrieved)) :
         /\ retrieved' = Append(retrieved, [path |-> repos[i], ok |-> TRUE, all |-> all])
         /\ log' = all
    /\ offset' = calcWeekOffset
    /\ k' = 1
    /\ pc' = "forEach"
    /\ UNCHANGED <<now, zone, repos, i, commits, inserted, out, probe, result>>

\* one call of the forEach callback
ForEachCommit ==
    /\ pc = "forEach"
    /\ k <= Len(log)
    /\ commits' = ProcessCommit(commits, log[k], TargetEmail, offset)
    /\ inserted' = KeysAfterSet(inserted, commits')
    /\ k' = k + 1
    /\ UNCHANGED <<now, zone, repos, pc, i, offset, log, retrieved, out, probe, result>>

\* forEach is through: fillCommitsFromRepo returns
ForEachDone ==
    /\ pc = "forEach"
    /\ k > Len(log)
    /\ NextRepository
    /\ UNCHANGED <<now, zone, repos, commits, inserted, offset, log, k, retrieved, out, probe, result>>

\* generateStats after the await: nothing is rendered for an empty map
RenderContributionGraph ==
    /\ pc = "render"
    /\ IF MapSize(commits) = 0
       THEN out' = out
       ELSE out' = out \o renderContributionGraph(commits, inserted)
    /\ pc' = "done"
    /\ UNCHANGED <<now, zone, repos, i, commits, inserted, offset, log, k, retrieved, probe, result>>

Next ==
    \/ GenerateStatsEmpty
    \/ GenerateStats
    \/ SimpleGitThrows
    \/ LogRejected
    \/ LogResolved
    \/ ForEachCommit
    \/ ForEachDone
    \/ RenderContributionGraph

Spec == Init /\ [][Next]_vars

\* ---------------------------------------------------------------- direct calls
\* countDaysSinceDate called on its own, as the unit tests call it: at any
\* hour of the day, in any of the zones, on dates from MaxAhead days ahead of
\* the clock to MaxBeyond days beyond the window, and on an invalid date.
MaxAhead == 1
MaxBeyond == 2
ClockHours == {0, 12, 23}

InitDays ==
    /\ now \in { Date(BaseDay + w, h) : w \in 0..(DAYS_PER_WEEK - 1), h \in ClockHours }
    /\ zone \in Zones
    /\ repos = << >>
    /\ pc = "idle"
    /\ i = 0
    /\ commits = EmptyMap
    /\ inserted = << >>
    /\ offset = 0
    /\ log = << >>
    /\ k = 0
    /\ retrieved = << >>
    /\ out = << >>
    /\ probe = InvalidDate
    /\ result = 0

CallCountDaysSinceDate ==
    /\ pc = "idle"
    /\ \E date \in { Date(now.day - d, h) :
                       d \in (0 - MaxAhead)..(DAYS_IN_LAST_SIX_MONTHS + MaxBeyond),
                       h \in ClockHours } \cup {InvalidDate} :
         /\ probe' = date
         /\ result' = countDaysSinceDate(date)
    /\ pc' = "called"
    /\ UNCHANGED <<now, zone, repos, i, commits, inserted, offset, log, k, retrieved, out>>

NextDays == CallCountDaysSinceDate

SpecDays == InitDays /\ [][NextDays]_vars

\* ---------------------------------------------------------------- observers
\* the logs of the git.log() calls that resolved, in call order
ResolvedLogs(rs) ==
    LET ok == SelectSeq(rs, LAMBDA r : r.ok)
    IN  [j \in 1..Len(ok) |-> ok[j].all]

RECURSIVE Flatten(_)
Flatten(logs) == IF logs = << >> THEN << >> ELSE Head(logs) \o Flatten(Tail(logs))

RECURSIVE FoldCommits(_, _)
FoldCommits(m, es) ==
    IF es = << >> THEN m
    ELSE CHOOSE folded \in
             { FoldCommits(counted, Tail(es)) :
                 counted \in { ProcessCommit(m, Head(es), TargetEmail, calcWeekOffset) } } :
             TRUE

\* the keys, in insertion order, of the map FoldCommits returns
RECURSIVE FoldKeys(_, _, _)
FoldKeys(ks, m, es) ==
    IF es = << >> THEN ks
    ELSE CHOOSE folded \in
             { FoldKeys(KeysAfterSet(ks, counted), counted, Tail(es)) :
                 counted \in { ProcessCommit(m, Head(es), TargetEmail, calcWeekOffset) } } :
             TRUE

\* what processAllRepositories returns for a registry whose git.log() calls
\* all resolve, with these logs
AggregateOf(logs) ==
    IF Len(logs) = 0 THEN EmptyMap ELSE FoldCommits(InitialCommits, Flatten(logs))

\* what processAllRepositories returns for a registry whose git.log() calls
\* settle as rs, in list order: a rejected call adds nothing
processAllRepositories(rs) ==
    IF Len(rs) = 0 THEN EmptyMap
    ELSE FoldCommits(InitialCommits, Flatten(ResolvedLogs(rs)))

\* aggregation is through: processAllRepositories returned a map
Aggregated == pc \in {"render", "done"}

\* a rendering was written
Rendered == pc = "done" /\ Len(repos) > 0

\* writes ahead of the first grid row: the banner, the title, the month headers
GridStart == Len(<< "analyzing", "title", "months" >>)

\* the write of the cell of week w, row j, in a rendering
OutCell(w, j) == out[GridStart + (6 - j) * RowWrites + (GridColumns + 1 - w)]

GridWeeks == 0..(GridColumns - 1)
GridDays == 0..(DAYS_PER_WEEK - 1)

\* the commit about to be handed to the forEach callback
AtCommit == pc = "forEach" /\ k <= Len(log)

\* this step is one call of the forEach callback
CallbackStep == AtCommit /\ k' = k + 1

\* ---------------------------------------------------------------- scheduling
\* The run with its scheduling: every promise generateStats awaits settles
\* (git.log() resolves or rejects, unless simpleGit threw before), the event
\* loop then runs the continuation, and the synchronous steps in between run
\* to completion.
\* The callback step and the rendering step are told by the position they
\* move: no other step of Next moves k, and no other step leaves "render".
Renders == pc = "render" /\ pc' = "done"

SpecFair ==
    /\ Spec
    /\ WF_vars(GenerateStatsEmpty)
    /\ WF_vars(GenerateStats)
    /\ WF_vars(SimpleGitThrows \/ LogRejected \/ LogResolved)
    /\ WF_k(CallbackStep)
    /\ WF_vars(ForEachDone)
    /\ WF_pc(Renders)

\* ---------------------------------------------------------------- two renderings
\* renderContributionGraph called twice on one map, as a caller that keeps the
\* map may call it, in any of the zones: the second call at once, later the
\* same day, the next day, or a week later.  The map is one that aggregation
\* returns.
LaterDays == {0, 1, DAYS_PER_WEEK}

InitRender ==
    /\ now \in { Date(BaseDay + w, 12) : w \in 0..(DAYS_PER_WEEK - 1) }
    /\ zone \in Zones
    /\ repos = << >>
    /\ pc = "idle"
    /\ i = 0
    /\ \E all \in SeqsUpTo(Events, MaxEvents) :
         /\ commits = FoldCommits(InitialCommits, all)
         /\ inserted = FoldKeys(InitialKeys, InitialCommits, all)
    /\ offset = 0
    /\ log = << >>
    /\ k = 0
    /\ retrieved = << >>
    /\ out = << >>
    /\ probe = InvalidDate
    /\ result = 0

\* the first call; probe keeps the clock it was made at
RenderFirst ==
    /\ pc = "idle"
    /\ out' = renderContributionGraph(commits, inserted)
    /\ probe' = now
    /\ pc' = "once"
    /\ UNCHANGED <<now, zone, repos, i, commits, inserted, offset, log, k, retrieved, result>>

\* time passes between the calls: none, some hours, a night, or a week
ClockAdvances ==
    /\ pc = "once"
    /\ \E d \in LaterDays, h \in ClockHours :
         /\ d = 0 => h >= now.hour
         /\ now' = Date(now.day + d, h)
    /\ pc' = "later"
    /\ UNCHANGED <<zone, repos, i, commits, inserted, offset, log, k, retrieved, out, probe, result>>

\* the second call
RenderSecond ==
    /\ pc = "later"
    /\ out' = out \o renderContributionGraph(commits, inserted)
    /\ pc' = "twice"
    /\ UNCHANGED <<now, zone, repos, i, commits, inserted, offset, log, k, retrieved, probe, result>>

NextRender ==
    \/ RenderFirst
    \/ ClockAdvances
    \/ RenderSecond

SpecRender == InitRender /\ [][NextRender]_vars

\* the writes of the first and of the second of two renderings in a row
FirstRendering == SubSeq(out, 1, Len(out) \div 2)
SecondRendering == SubSeq(out, Len(out) \div 2 + 1, Len(out))

\* ---------------------------------------------------------------- one cell
\* printCell called on its own with a count from 0 to MaxCount, or NaN, as
\* today's cell or as another cell.
MaxCount == 100

InitCell ==
    /\ now = Date(BaseDay, 12)
    /\ zone = ZoneUTC
    /\ repos = << >>
    /\ pc = "idle"
    /\ i = 0
    /\ commits = EmptyMap
    /\ inserted = << >>
    /\ offset = 0
    /\ log = << >>
    /\ k = 0
    /\ retrieved = << >>
    /\ out = << >>
    /\ probe = InvalidDate
    /\ result = 0

CallPrintCell ==
    /\ pc = "idle"
    /\ \E val \in (0..MaxCount) \cup {NaN}, isToday \in BOOLEAN :
         /\ probe' = [val |-> val, isToday |-> isToday]
         /\ out' = << printCell(val, isToday) >>
    /\ pc' = "called"
    /\ UNCHANGED <<now, zone, repos, i, commits, inserted, offset, log, k, retrieved, result>>

NextCell == CallPrintCell

SpecCell == InitCell /\ [][NextCell]_vars

\* ---------------------------------------------------------------- scan: registry
\* The registry file and the functions that write it: FileManager's of
\* scan.ts and the exported scan(folder) of the older scan module.  A string
\* is the sequence of its UTF-16 code units; a path is a non-empty string.
LF == 10
Slash == 47
LetterA == 97

\* the code units of the paths, and the longest path and argument list
PathChars == {LF, Slash, LetterA}
MaxPathLen == 2
MaxNew == 2

\* the calls made on the registry in one behaviour
MaxCalls == 2

Paths == UNION { [1..n -> PathChars] : n \in 1..MaxPathLen }

Range(s) == { s[n] : n \in DOMAIN s }

\* a < b for strings, as Array.prototype.sort() without a comparator orders
\* them: by code units, a proper prefix first
StringLess(a, b) ==
    \E n \in 1..Len(b) :
        /\ n <= Len(a) + 1
        /\ \A h \in 1..(n - 1) : a[h] = b[h]
        /\ n = Len(a) + 1 \/ a[n] < b[n]

\* content.split('\n'): the pieces between the line feeds, empty ones included
RECURSIVE split(_)
split(content) ==
    IF \A n \in 1..Len(content) : content[n] # LF THEN << content >>
    ELSE LET at == CHOOSE n \in 1..Len(content) :
                       content[n] = LF /\ \A h \in 1..(n - 1) : content[h] # LF
         IN  << SubSeq(content, 1, at - 1) >>
                 \o split(SubSeq(content, at + 1, Len(content)))

\* repos.join('\n')
RECURSIVE join(_)
join(lines) ==
    IF lines = << >> THEN << >>
    ELSE IF Len(lines) = 1 THEN lines[1]
    ELSE lines[1] \o << LF >> \o join(Tail(lines))

\* FileManager.parseFileLinesToSlice, given the content of the file (a file
\* that does not exist reads as no lines, like an empty one)
parseFileLinesToSlice(content) == SelectSeq(split(content), LAMBDA line : Len(line) > 0)

\* FileManager.writeRepositoriesToFile: the content written
writeRepositoriesToFile(lines) == join(lines)

\* new Set(items) and repoSet.add(item): a Set keeps its members in the order
\* of their first insertion
RECURSIVE SetAddAll(_, _)
SetAddAll(members, items) ==
    IF items = << >> THEN members
    ELSE SetAddAll(IF Head(items) \in Range(members) THEN members
                   ELSE Append(members, Head(items)),
                   Tail(items))

\* Array.prototype.sort() on an array of distinct strings
RECURSIVE sort(_)
sort(array) ==
    IF array = << >> THEN << >>
    ELSE LET least == CHOOSE x \in Range(array) :
                          \A y \in Range(array) \ {x} : StringLess(x, y)
         IN  << least >> \o sort(SelectSeq(array, LAMBDA x : x # least))

\* RepositoryManager.mergeRepositoryLists
mergeRepositoryLists(newRepos, existingRepos) ==
    LET repoSet == SetAddAll(SetAddAll(<< >>, newRepos), existingRepos)
    IN  sort(repoSet)

\* joinSlices of the older scan module: the new items, then the existing
\* ones that are not among them, unsorted
joinSlices(newItems, existingItems) ==
    SetAddAll(SetAddAll(<< >>, newItems), existingItems)

\* dumpStringsSliceToFile of the older scan module: the content written
dumpStringsSliceToFile(lines) == join(lines)

\* addNewSliceElementsToFile of the older scan module, given the lines its
\* parseFileLinesToSlice read: the content it leaves in the file
addNewSliceElementsToFile(existingRepos, newRepos) ==
    dumpStringsSliceToFile(joinSlices(newRepos, existingRepos))

\* path.join's normalisation of a path of these code units: a run of
\* slashes becomes one slash
RECURSIVE normalize(_)
normalize(path) ==
    IF Len(path) < 2 THEN path
    ELSE IF path[1] = Slash /\ path[2] = Slash THEN normalize(Tail(path))
    ELSE << path[1] >> \o normalize(Tail(path))

\* path.join(folder, item) for the entries a walk of the folder can meet
\* within MaxPathLen: an entry's name is non-empty and holds no slash, and
\* the entries of a directory below the folder have longer paths
Children(folder) ==
    { itemPath \in Paths \ {folder} :
        \E item \in { name \in Paths : Slash \notin Range(name) } :
            itemPath = normalize(folder \o << Slash >> \o item) }

\* The registry does not exist yet.
InitMerge ==
    /\ now = Date(BaseDay, 12)
    /\ zone = ZoneUTC
    /\ repos = << >>
    /\ pc = "idle"
    /\ i = 0
    /\ commits = EmptyMap
    /\ inserted = << >>
    /\ offset = 0
    /\ log = << >>
    /\ k = 0
    /\ retrieved = << >>
    /\ out = << >>
    /\ probe = << >>
    /\ result = << >>

\* FileManager.mergeRepositoriesInFile(filePath, newRepos): probe is
\* newRepos, result what mergeRepositoryLists returned, repos the lines of
\* the file as it is read back, pc what the call made last did and i the
\* calls made; no call follows the end of the process
MergeRepositoriesInFile ==
    /\ i < MaxCalls
    /\ pc # "exited"
    /\ \E newRepos \in SeqsUpTo(Paths, MaxNew) :
         LET existingRepos == repos
             mergedRepos == mergeRepositoryLists(newRepos, existingRepos)
         IN  /\ probe' = newRepos
             /\ result' = mergedRepos
             /\ repos' = parseFileLinesToSlice(writeRepositoriesToFile(mergedRepos))
    /\ pc' = "merged"
    /\ i' = i + 1
    /\ UNCHANGED <<now, zone, commits, inserted, offset, log, k, retrieved, out>>

\* FileManager.writeRepositoriesToFile(repos, filePath) called on its own, as
\* its unit test calls it: probe and result are the list given, which
\* replaces whatever the file held
WriteRepositoriesToFile ==
    /\ i < MaxCalls
    /\ pc # "exited"
    /\ \E lines \in SeqsUpTo(Paths, MaxNew) :
         /\ probe' = lines
         /\ result' = lines
         /\ repos' = parseFileLinesToSlice(writeRepositoriesToFile(lines))
    /\ pc' = "written"
    /\ i' = i + 1
    /\ UNCHANGED <<now, zone, commits, inserted, offset, log, k, retrieved, out>>

\* scan(folder) of the older scan module.  It logs 'Found folders:' and
\* walks the folder.  Either readdirSync(folder) throws (the folder is
\* missing, no directory, or unreadable; the call stands in no try block), and
\* scan ends there with the registry untouched; or scanGitFolders returns its
\* list: folders below the given one in the order readdirSync lists them,
\* and the folder itself last when the walk met its .git entry.  probe is
\* that list, result the list joinSlices returned, and out the console.log
\* messages.
Scan ==
    /\ i < MaxCalls
    /\ pc # "exited"
    /\ \/ /\ out' = Append(out, Write("found", 0, "plain", "Found folders:\n"))
          /\ pc' = "threw"
          /\ UNCHANGED <<repos, probe, result>>
       \/ \E folder \in Paths :
            \E repositories \in SeqsUpTo(Children(folder) \cup {folder}, MaxNew) :
              /\ \A m, n \in DOMAIN repositories :
                    m # n => repositories[m] # repositories[n]
              /\ \A n \in DOMAIN repositories :
                    repositories[n] = folder => n = Len(repositories)
              /\ probe' = repositories
              /\ result' = joinSlices(repositories, repos)
              /\ repos' = parseFileLinesToSlice(addNewSliceElementsToFile(repos, repositories))
              /\ out' = out \o << Write("found", 0, "plain", "Found folders:\n") >>
                            \o [n \in DOMAIN repositories |->
                                   Write("folder", 0, "plain", repositories[n])]
                            \o << Write("added", 0, "plain", "\n\nSuccessfully added\n\n") >>
              /\ pc' = "scanned"
    /\ i' = i + 1
    /\ UNCHANGED <<now, zone, commits, inserted, offset, log, k, retrieved>>

\* scan(folder) of scan.ts, the "add" command.  Either
\* scanForGitRepositories throws (the folder is missing or no directory) and
\* the catch block ends the process with process.exit(1); or it returns its
\* list, the folder alone when it is a repository and else repositories
\* below it: displayFoundRepositories logs it and, when it is not empty,
\* mergeRepositoriesInFile saves it and showScanSummary logs three lines.
\* probe is the list, result what mergeRepositoryLists returned, and out the
\* console.log messages by kind, with the number or the path they name (the
\* spinner and console.error write to stderr, which out does not hold).
ScanAndSave ==
    /\ i < MaxCalls
    /\ pc # "exited"
    /\ \/ /\ pc' = "exited"
          /\ UNCHANGED <<repos, probe, result, out>>
       \/ \E folder \in Paths :
            \E repositories \in { << folder >> } \cup SeqsUpTo(Children(folder), MaxNew) :
              /\ \A m, n \in DOMAIN repositories :
                    m # n => repositories[m] # repositories[n]
              /\ probe' = repositories
              /\ IF Len(repositories) = 0
                 THEN /\ out' = Append(out, Write("none", 0, "plain", ""))
                      /\ pc' = "nothing"
                      /\ UNCHANGED <<repos, result>>
                 ELSE LET mergedRepos == mergeRepositoryLists(repositories, repos)
                      IN  /\ result' = mergedRepos
                          /\ repos' = parseFileLinesToSlice(
                                          writeRepositoriesToFile(mergedRepos))
                          /\ out' = out \o << Write("count", Len(repositories), "plain", "") >>
                                        \o [n \in DOMAIN repositories |->
                                               Write("repository", n, "plain", repositories[n])]
                                        \o << Write("completed", 0, "plain", folder),
                                              Write("totalFound", Len(repositories), "plain", ""),
                                              Write("savedTo", 0, "plain", "") >>
                          /\ pc' = "saved"
    /\ i' = i + 1
    /\ UNCHANGED <<now, zone, commits, inserted, offset, log, k, retrieved>>

NextMerge ==
    \/ MergeRepositoriesInFile
    \/ WriteRepositoriesToFile
    \/ Scan
    \/ ScanAndSave

SpecMerge == InitMerge /\ [][NextMerge]_vars

\* ---------------------------------------------------------------- scan: walk
\* The "add" command's directory walk (scan.ts).  A path below the root is the
\* sequence of the names path.join put together; << >> is the root itself.
IGNORED_DIRECTORIES == {"node_modules", "vendor", ".git"}
GIT_DIRECTORY == ".git"

\* the names of the entries, in the order readdirSync lists them
EntryNames == << ".git", "node_modules", "src", "vendor" >>

\* deepest entry, number of entries and number of unreadable directories of
\* a file system
MaxDepth == 3
MaxEntries == 4
MaxDenied == 1

\* A file system fs as a walk sees it: fs.root says what the root path is;
\* fs.dirs are the directories below it; fs.files the entries stat does not
\* report as a directory, or fails on; fs.denied the directories readdirSync
\* fails on.
\* RepositoryManager.isIgnoredDirectory without "vendor" in the list
isIgnoredDirectory_NoVendor(directoryName) ==
    directoryName \in IGNORED_DIRECTORIES \ {"vendor"}

\* RepositoryManager.isIgnoredDirectory
isIgnoredDirectory(directoryName) == directoryName \in IGNORED_DIRECTORIES

\* GitScanner.shouldSkipDirectory
shouldSkipDirectory(directoryName) == isIgnoredDirectory(directoryName)

\* GitScanner.isGitRepository
isGitRepository(fs, directoryPath) ==
    Append(directoryPath, GIT_DIRECTORY) \in fs.dirs

\* fs.readdirSync(directoryPath)
readdirSync(fs, directoryPath) ==
    SelectSeq(EntryNames,
              LAMBDA item : Append(directoryPath, item) \in fs.dirs \cup fs.files)

\* GitScanner.scanDirectoryRecursively; ScanItems is its for loop, over the
\* items from position n on
RECURSIVE scanDirectoryRecursively(_, _)
RECURSIVE ScanItems(_, _, _, _)
ScanItems(fs, directoryPath, items, n) ==
    IF n > Len(items) THEN << >>
    ELSE LET item == items[n]
             itemPath == Append(directoryPath, item)
             foundRepos ==
                 IF shouldSkipDirectory(item) THEN << >>
                 ELSE IF itemPath \in fs.dirs
                      THEN scanDirectoryRecursively(fs, itemPath)
                      ELSE << >>
         IN  foundRepos \o ScanItems(fs, directoryPath, items, n + 1)

scanDirectoryRecursively(fs, directoryPath) ==
    IF isGitRepository(fs, directoryPath) THEN << directoryPath >>
    ELSE IF directoryPath \in fs.denied THEN << >>
    ELSE ScanItems(fs, directoryPath, readdirSync(fs, directoryPath), 1)

\* GitScanner.scanForGitRepositories
scanForGitRepositories(fs) ==
    IF fs.root # "dir" THEN [threw |-> TRUE, repositories |-> << >>]
    ELSE [threw |-> FALSE, repositories |-> scanDirectoryRecursively(fs, << >>)]

\* The root path is an empty directory, a file, or missing.
InitScan ==
    /\ now = Date(BaseDay, 12)
    /\ zone = ZoneUTC
    /\ repos = << >>
    /\ pc = "idle"
    /\ i = 0
    /\ commits = EmptyMap
    /\ inserted = << >>
    /\ offset = 0
    /\ log = << >>
    /\ k = 0
    /\ retrieved = << >>
    /\ out = << >>
    /\ probe \in [root : {"dir", "file", "missing"}, dirs : { {} }, files : { {} },
                  denied : { {} }]
    /\ result = 0

\* before the scan, something creates a directory or a file in the root or
\* in a directory below it
MakeEntry ==
    /\ pc = "idle"
    /\ probe.root = "dir"
    /\ Cardinality(probe.dirs \cup probe.files) < MaxEntries
    /\ \E parent \in probe.dirs \cup { << >> }, e \in DOMAIN EntryNames :
         LET itemPath == Append(parent, EntryNames[e])
         IN  /\ Len(parent) < MaxDepth
             /\ itemPath \notin probe.dirs \cup probe.files
             /\ \/ probe' = [probe EXCEPT !.dirs = @ \cup {itemPath}]
                \/ probe' = [probe EXCEPT !.files = @ \cup {itemPath}]
    /\ UNCHANGED <<now, zone, repos, pc, i, commits, inserted, offset, log, k, retrieved, out, result>>

\* before the scan, a directory is made unreadable
DenyDirectory ==
    /\ pc = "idle"
    /\ probe.root = "dir"
    /\ Cardinality(probe.denied) < MaxDenied
    /\ \E d \in (probe.dirs \cup { << >> }) \ probe.denied :
         probe' = [probe EXCEPT !.denied = @ \cup {d}]
    /\ UNCHANGED <<now, zone, repos, pc, i, commits, inserted, offset, log, k, retrieved, out, result>>

\* scanForGitRepositories called on the root: probe is the file system,
\* result what the call returned or that it threw
CallScanForGitRepositories ==
    /\ pc = "idle"
    /\ result' = scanForGitRepositories(probe)
    /\ pc' = "called"
    /\ UNCHANGED <<now, zone, repos, i, commits, inserted, offset, log, k, retrieved, out, probe>>

NextScan ==
    \/ MakeEntry
    \/ DenyDirectory
    \/ CallScanForGitRepositories

SpecScan == InitScan /\ [][NextScan]_vars

\* ---------------------------------------------------------------- one grid
\* buildColumns called on its own, as the unit tests call it, on an ascending
\* key list and a map: the keys are a run lo..hi of integers between MaxBelow
\* below 0 and the end of week MaxWeeks - 1, less at most one key; the map
\* holds a count for each key of the run, less at most one.
MaxWeeks == 2
MaxBelow == 8

GridKeys == (0 - MaxBelow)..(DAYS_PER_WEEK * MaxWeeks - 1)

\* the count the map holds for a key: the counts of the unit test, key + 1,
\* moved up to be positive
CountOf(key) == key + MaxBelow + 1

InitGrid ==
    /\ now = Date(BaseDay, 12)
    /\ zone = ZoneUTC
    /\ repos = << >>
    /\ pc = "idle"
    /\ i = 0
    /\ commits = EmptyMap
    /\ inserted = << >>
    /\ offset = 0
    /\ log = << >>
    /\ k = 0
    /\ retrieved = << >>
    /\ out = << >>
    /\ probe = InvalidDate
    /\ result = 0

\* probe is the arguments of the call, result the ColumnMap it returned
CallBuildColumns ==
    /\ pc = "idle"
    /\ \E lo \in GridKeys, hi \in GridKeys \cup {0 - MaxBelow - 1} :
         \E gap \in { {} } \cup { {x} : x \in lo..hi },
            missing \in { {} } \cup { {x} : x \in lo..hi } :
             LET keys == Ascending((lo..hi) \ gap)
                 m == [x \in (lo..hi) \ missing |-> CountOf(x)]
             IN  /\ probe' = [keys |-> keys, commits |-> m]
                 /\ result' = buildColumns(keys, m)
    /\ pc' = "called"
    /\ UNCHANGED <<now, zone, repos, i, commits, inserted, offset, log, k, retrieved, out>>

NextGrid == CallBuildColumns

SpecGrid == InitGrid /\ [][NextGrid]_vars

\* ---------------------------------------------------------------- week offset
\* calcWeekOffset called on its own, as the unit test calls it: on any of the
\* MaxClockDays + 1 days from Sunday 2026-11-01 on, at any hour, in any zone.
MaxClockDays == 13

InitOffset ==
    /\ now \in { Date(BaseDay + w, h) : w \in 0..MaxClockDays, h \in ClockHours }
    /\ zone \in Zones
    /\ repos = << >>
    /\ pc = "idle"
    /\ i = 0
    /\ commits = EmptyMap
    /\ inserted = << >>
    /\ offset = 0
    /\ log = << >>
    /\ k = 0
    /\ retrieved = << >>
    /\ out = << >>
    /\ probe = InvalidDate
    /\ result = 0

CallCalcWeekOffset ==
    /\ pc = "idle"
    /\ result' = calcWeekOffset
    /\ pc' = "called"
    /\ UNCHANGED <<now, zone, repos, i, commits, inserted, offset, log, k, retrieved, out, probe>>

NextOffset == CallCalcWeekOffset

SpecOffset == InitOffset /\ [][NextOffset]_vars

\* ---------------------------------------------------------------- C1
\* C1 as stated: with an empty registry generateStats writes exactly one line,
\* the "no repositories" message, and opens no repository.
C1_OneLineOnly ==
    (pc = "done" /\ Len(repos) = 0) =>
        /\ out = << Line("norepos") >>
        /\ i = 0
        /\ retrieved = << >>

\* C1 amended: with an empty registry generateStats writes exactly two lines,
\* the "Analyzing contributions for" banner and then the "no repositories"
\* message; it opens no repository and writes no grid row, legend or total.
C1_EmptyRegistry ==
    (pc = "done" /\ Len(repos) = 0) =>
        /\ out = << Line("analyzing"), Line("norepos") >>
        /\ \A n \in 1..Len(out) :
              out[n].kind \notin {"title", "months", "label", "cell", "newline",
                                  "legend", "less", "swatch", "gap", "more", "total"}
        /\ i = 0
        /\ retrieved = << >>
        /\ commits = EmptyMap

C1_Witness == pc = "done" /\ Len(repos) = 0 /\ Len(out) = 2

\* ---------------------------------------------------------------- C2
\* a step in which the repository in flight fails: simpleGit throws on its
\* path, or its git.log() call rejects
C2_FailureStep ==
    /\ pc = "log"
    /\ \/ pc' = "failed"
       \/ /\ Len(retrieved') = Len(retrieved) + 1
          /\ ~retrieved'[Len(retrieved')].ok

\* C2: a failing repository leaves the map unchanged and the loop goes on to
\* the next repository of the list (or returns the map after the last); the
\* final map equals the map of the same list with the failing repositories
\* removed.
C2_FailureIsolated ==
    /\ [][C2_FailureStep =>
            /\ commits' = commits
            /\ IF i < Len(repos)
               THEN pc' = "log" /\ i' = i + 1
               ELSE pc' = "render"]_vars
    /\ [](Aggregated => commits = AggregateOf(ResolvedLogs(retrieved)))

\* ---------------------------------------------------------------- C3
\* C3: a commit of the target author dated d days before today adds 1 to the
\* entry at key d + weekOffset and changes nothing else when 0 <= d <= 183,
\* and changes nothing when d >= 184.
C3_CountedByCalendarDay ==
    [][(CallbackStep /\ log[k].author_email = TargetEmail /\ log[k].date.parses
            /\ now.day - log[k].date.day >= 0) =>
        LET d == now.day - log[k].date.day
            key == d + calcWeekOffset
        IN  IF d <= DAYS_IN_LAST_SIX_MONTHS
            THEN /\ DOMAIN commits' = (DOMAIN commits) \cup {key}
                 /\ commits'[key] = MapGetOr0(commits, key) + 1
                 /\ \A x \in (DOMAIN commits) \ {key} : commits'[x] = commits[x]
            ELSE commits' = commits]_vars

\* ---------------------------------------------------------------- C4
\* C4: a commit whose author email is not exactly the target email leaves the
\* map unchanged, whatever its date.
C4_OtherAuthorIgnored ==
    [][(CallbackStep /\ log[k].author_email # TargetEmail) => commits' = commits]_vars

\* the callback has run on a commit of the other author that is dated today
C4_Witness ==
    /\ pc = "forEach"
    /\ k > 1
    /\ log[k - 1].author_email = OtherEmail
    /\ log[k - 1].date = DateString(0, 23)

\* ---------------------------------------------------------------- C5
\* C5: a commit of the target author whose date does not parse is skipped: it
\* adds no key and no count.
C5_UnparsableSkipped ==
    [][(CallbackStep /\ log[k].author_email = TargetEmail /\ ~log[k].date.parses) =>
        commits' = commits]_vars

\* ---------------------------------------------------------------- C6
\* C6: countDaysSinceDate returns d for a date whose local calendar day lies d
\* days before today's, 0 <= d <= 183, at any hour of either, and 99999 for
\* d >= 184.
C6_DaysByCalendarDay ==
    (pc = "called" /\ ~isNaN(probe.day) /\ now.day - probe.day >= 0) =>
        LET d == now.day - probe.day
        IN  IF d <= DAYS_IN_LAST_SIX_MONTHS THEN result = d ELSE result = OUT_OF_RANGE

\* ---------------------------------------------------------------- C7
\* C7: in a rendering the cell of week 0, row weekOffset - 1 has the highlight
\* style whatever its count, and no other cell of the grid has it.
C7_OnlyTodayHighlighted ==
    Rendered =>
        \A w \in GridWeeks, j \in GridDays :
            /\ OutCell(w, j).kind = "cell"
            /\ OutCell(w, j).style = "today" <=> (w = 0 /\ j = calcWeekOffset - 1)

\* a rendering whose highlighted cell holds the count of two commits
C7_Witness ==
    /\ Rendered
    /\ OutCell(0, calcWeekOffset - 1).style = "today"
    /\ OutCell(0, calcWeekOffset - 1).val = 2

\* ---------------------------------------------------------------- C8
\* the commits of the logs that resolved
C8_Commits == Flatten(ResolvedLogs(retrieved))

\* C8: with a single commit, of the target author and dated today, the
\* highlighted cell of week 0, row weekOffset - 1 shows 1, on every weekday.
C8_TodayCellShowsToday ==
    (Rendered /\ Len(C8_Commits) = 1
        /\ C8_Commits[1].author_email = TargetEmail
        /\ C8_Commits[1].date = DateString(0, 23)) =>
        /\ OutCell(0, calcWeekOffset - 1).style = "today"
        /\ OutCell(0, calcWeekOffset - 1).val = 1

\* ---------------------------------------------------------------- C9
\* C9: every column built from an aggregated map holds exactly 7 counts, entry
\* n of week w being map[7w + n].
C9_ColumnsHoldSevenDays ==
    pc = "render" =>
        \A cols \in { buildColumns(sortCommitKeys(inserted), commits) } :
            \A w \in DOMAIN cols :
                /\ Len(cols[w]) = DAYS_PER_WEEK
                /\ \A n \in GridDays :
                      cols[w][n + 1] = MapGetOr0(commits, DAYS_PER_WEEK * w + n)

\* ---------------------------------------------------------------- C10
\* the sum of m over keys[lo..hi], by halves
RECURSIVE C10_SumRange(_, _, _, _)
C10_SumRange(m, keys, lo, hi) ==
    IF lo > hi THEN 0
    ELSE IF lo = hi THEN m[keys[lo]]
    ELSE C10_SumRange(m, keys, lo, (lo + hi) \div 2)
            + C10_SumRange(m, keys, (lo + hi) \div 2 + 1, hi)

\* the sum of the counts the grid shows
C10_GridSum ==
    Cardinality({ <<w, j, c>> \in GridWeeks \X GridDays \X (1..MaxEvents) :
                    c <= OutCell(w, j).val })

\* C10: the total of a rendering is the sum of every value of the map, the
\* counts under keys of weeks that are not in the grid included, and it is
\* the last write, after the grid and the legend.
C10_TotalOfMap ==
    Rendered =>
        /\ out[Len(out)].kind = "total"
        /\ \A keys \in { Ascending((DOMAIN commits) \ {NaN}) } :
              out[Len(out)].val =
                  C10_SumRange(commits, keys, 1, Len(keys)) + MapGetOr0(commits, NaN)
        /\ SubSeq(out, Len(out) - Len(printLegend), Len(out) - 1) = printLegend
        /\ \A n \in 1..(Len(out) - 1) : out[n].kind # "total"
        /\ \A n \in 1..Len(out) :
              out[n].kind \in {"cell", "label", "newline", "months"}
                  => n < Len(out) - Len(printLegend)

\* a rendering whose total counts a commit the grid does not show
C10_Witness ==
    /\ Rendered
    /\ out[Len(out)].kind = "total"
    /\ out[Len(out)].val = 2
    /\ C10_GridSum = 1

\* ---------------------------------------------------------------- C11
\* C11: the final map does not depend on the order of the repository list:
\* aggregating the same repositories, each with the same log or the same
\* failure, in any other order returns a map with the same keys and counts.
C11_OrderIndependent ==
    Aggregated =>
        \A p \in Permutations(1..Len(retrieved)) :
            processAllRepositories([j \in 1..Len(retrieved) |-> retrieved[p[j]]])
                = commits

\* two repositories with different logs, each with a commit that is counted
C11_Witness ==
    /\ pc = "done"
    /\ Len(retrieved) = 2
    /\ retrieved[1].ok /\ retrieved[2].ok
    /\ Len(retrieved[1].all) = 1 /\ Len(retrieved[2].all) = 1
    /\ retrieved[1].all # retrieved[2].all
    /\ SumValues(commits) = 2

\* ---------------------------------------------------------------- C12
\* C12 as stated: two renderings of the same map write the same sequence of
\* cells, styles, header, legend and total.
C12_SameOutputTwice ==
    pc = "twice" => SecondRendering = FirstRendering

\* C12 amended: two renderings of the same map made on the same local
\* calendar day, at whatever hours and in whatever zone, write the same
\* sequence of cells, styles, header, legend and total.  The output also
\* depends on the clock: a rendering made on another weekday has the
\* highlight on another row, and one made on the same weekday of another week
\* differs from the first in the month header line at most.
C12_SameDaySameOutput ==
    pc = "twice" =>
        /\ Len(out) = 2 * Len(FirstRendering)
        /\ FirstRendering[1].kind = "title" /\ SecondRendering[1].kind = "title"
        /\ probe.day = now.day => SecondRendering = FirstRendering
        /\ getDay(probe) = getDay(now) =>
              \A n \in DOMAIN FirstRendering :
                  FirstRendering[n].kind # "months" => SecondRendering[n] = FirstRendering[n]
        /\ getDay(probe) # getDay(now) =>
              \E j \in GridDays :
                  /\ FirstRendering[GridStart - 1 + (6 - j) * RowWrites + GridColumns + 1].style
                        = "today"
                  /\ SecondRendering[GridStart - 1 + (6 - j) * RowWrites + GridColumns + 1].style
                        # "today"

\* in New York a map with a counted commit was rendered twice, at noon and
\* late the same day, when the UTC day is already the next one
C12_Witness ==
    /\ pc = "twice"
    /\ zone = ZoneNewYork
    /\ probe.day = now.day /\ probe.hour = 12 /\ now.hour = 23
    /\ out[Len(out)].val = 1
    /\ SecondRendering = FirstRendering

\* ---------------------------------------------------------------- C13
\* C13: a cell that is not the highlighted one is written in the band of its
\* count, with inclusive boundaries: 0 none, 1..3 low, 4..6 medium, 7..9 high,
\* 10 or more max.
C13_BandOfCount ==
    (pc = "called" /\ ~probe.isToday /\ ~isNaN(probe.val)) =>
        /\ out[1].val = probe.val
        /\ out[1].style =
              IF probe.val = 0 THEN "none"
              ELSE IF probe.val \in 1..3 THEN "low"
              ELSE IF probe.val \in 4..6 THEN "medium"
              ELSE IF probe.val \in 7..9 THEN "high"
              ELSE "max"

\* an ordinary cell with a count on the upper boundary of the medium band
C13_Witness ==
    /\ pc = "called"
    /\ ~probe.isToday
    /\ probe.val = 6
    /\ out[1].style = "medium"

\* ---------------------------------------------------------------- C14
\* C14: mergeRepositoryLists returns the union of the new and the existing
\* paths, each once, in sorted order, and adding again repositories that were
\* added before leaves the registry unchanged.
C14_MergeIdempotent ==
    [][(pc' = "merged" /\ i' = i + 1) =>
          /\ Range(result') = Range(probe') \cup Range(repos)
          /\ \A n \in 1..(Len(result') - 1) : StringLess(result'[n], result'[n + 1])
          /\ (pc = "merged" /\ Range(probe') \subseteq Range(probe)) => repos' = repos]_vars

\* ---------------------------------------------------------------- C15
\* a directory holds a .git directory
C15_HoldsGit(d) == Append(d, GIT_DIRECTORY) \in probe.dirs

\* the walk gets to a directory: no directory on the way from the root is a
\* repository or cannot be listed, and no name on the way down to it, its own
\* included, is node_modules, vendor or .git
C15_Reached(d) ==
    /\ \A n \in 1..Len(d) : d[n] \notin {"node_modules", "vendor", ".git"}
    /\ \A n \in 0..(Len(d) - 1) :
          /\ ~C15_HoldsGit(SubSeq(d, 1, n))
          /\ SubSeq(d, 1, n) \notin probe.denied

\* C15: scanForGitRepositories reports a directory exactly when it holds a
\* .git directory and the walk gets to it; it reports no directory inside a
\* reported repository and none below a node_modules, vendor or .git
\* directory, and none twice.
C15_ReportsReachedRepositories ==
    (pc = "called" /\ probe.root = "dir") =>
        \A reported \in { result.repositories } :
            /\ ~result.threw
            /\ \A d \in probe.dirs \cup { << >> } :
                  d \in Range(reported) <=> (C15_HoldsGit(d) /\ C15_Reached(d))
            /\ Range(reported) \subseteq probe.dirs \cup { << >> }
            /\ \A m, n \in 1..Len(reported) :
                  m # n =>
                      /\ reported[m] # reported[n]
                      /\ ~(Len(reported[m]) < Len(reported[n])
                            /\ SubSeq(reported[n], 1, Len(reported[m])) = reported[m])
            /\ \A n \in 1..Len(reported) : \A h \in 1..Len(reported[n]) :
                  reported[n][h] \notin {"node_modules", "vendor", ".git"}

\* a walk that reported a repository and left out the one in vendor
C15_Witness ==
    /\ pc = "called"
    /\ probe.root = "dir"
    /\ << "src", ".git" >> \in probe.dirs
    /\ << "vendor", ".git" >> \in probe.dirs
    /\ result.repositories = << << "src" >> >>

\* ---------------------------------------------------------------- C16
\* C16: during aggregation each repository of the list is retrieved exactly
\* once, in list order; the retrieval of the next repository starts only when
\* the retrieval of the one in flight has failed or all its commits have been
\* processed; at most one repository is in flight.  Aggregation is over when
\* the map was returned or the run has failed.
C16_OneAtATimeInOrder ==
    /\ [](pc \in {"log", "forEach"} =>
            /\ i \in 1..Len(repos)
            /\ Len(retrieved) = IF pc = "log" THEN i - 1 ELSE i)
    /\ [](/\ Len(retrieved) <= Len(repos)
          /\ \A j \in 1..Len(retrieved) : retrieved[j].path = repos[j]
          /\ (Aggregated \/ pc = "failed") => Len(retrieved) = Len(repos))
    /\ [][i' # i =>
            /\ i' = i + 1
            /\ pc' = "log"
            /\ Len(retrieved') = i
            /\ i >= 1 =>
                  \/ pc = "log" /\ ~retrieved'[i].ok
                  \/ pc = "forEach" /\ retrieved[i].ok /\ k > Len(log) /\ log = retrieved[i].all]_vars
    /\ [][Len(retrieved') # Len(retrieved) =>
            /\ pc = "log"
            /\ Len(retrieved') = Len(retrieved) + 1
            /\ SubSeq(retrieved', 1, Len(retrieved)) = retrieved]_vars

\* ---------------------------------------------------------------- C17
\* aggregation has initialised its map
C17_Initialised ==
    pc \in {"log", "forEach", "render", "failed"} \/ (pc = "done" /\ Len(repos) > 0)

\* C17: in every state of aggregation after initialisation the keys 1..183
\* are all in the map, every value is a non-negative integer and 99999 is
\* not a key; from one state to the next no key is removed and no count
\* decreases.
C17_MapOnlyGrows ==
    /\ [](C17_Initialised =>
            /\ (1..DAYS_IN_LAST_SIX_MONTHS) \subseteq DOMAIN commits
            /\ \A x \in DOMAIN commits : commits[x] \in Nat
            /\ OUT_OF_RANGE \notin DOMAIN commits)
    /\ [][C17_Initialised =>
            /\ (DOMAIN commits) \subseteq DOMAIN commits'
            /\ \A x \in DOMAIN commits : commits'[x] >= commits[x]]_vars

\* two commits were counted on the same day, the last day of the window
C17_Witness ==
    /\ pc = "forEach"
    /\ k = 3
    /\ MapGetOr0(commits, DAYS_IN_LAST_SIX_MONTHS + offset) = 2

\* ---------------------------------------------------------------- C18
\* C18: for an ascending key list, week w is in the grid buildColumns returns
\* if and only if the key 7w + 6 is in the list; a list with no key on
\* day-in-week 6 gives the empty grid.
C18_WeekIffLastDayKey ==
    pc = "called" =>
        \A w \in (0 - MaxBelow)..MaxWeeks :
            w \in DOMAIN result <=> (DAYS_PER_WEEK * w + 6) \in Range(probe.keys)

\* ---------------------------------------------------------------- C19
\* the key list is 0, 1, .., 7n - 1
C19_FullWeeks(n) ==
    /\ Len(probe.keys) = DAYS_PER_WEEK * n
    /\ \A h \in 1..Len(probe.keys) : probe.keys[h] = h - 1

\* C19: for the key list 0..7n-1 buildColumns returns exactly the weeks
\* 0..n-1, and column w is map[7w], map[7w+1], .., map[7w+6] in that order, a
\* key that is not in the map counting as 0.
C19_ColumnsOfFullWeeks ==
    pc = "called" =>
        \A n \in 0..MaxWeeks :
            C19_FullWeeks(n) =>
                /\ DOMAIN result = 0..(n - 1)
                /\ \A w \in 0..(n - 1) :
                      result[w] = [d \in 1..DAYS_PER_WEEK |->
                                      MapGetOr0(probe.commits, DAYS_PER_WEEK * w + d - 1)]

\* two full weeks, with the key 9 missing from the map
C19_Witness ==
    /\ pc = "called"
    /\ C19_FullWeeks(2)
    /\ 9 \notin DOMAIN probe.commits
    /\ DOMAIN result = {0, 1}
    /\ result[0] = [d \in 1..DAYS_PER_WEEK |-> CountOf(d - 1)]
    /\ result[1][3] = 0
    /\ result[1][7] = CountOf(13)

\* ---------------------------------------------------------------- C20
\* the position in out of write n of the row of day-in-week j
C20_RowWrite(j, n) == GridStart + (6 - j) * RowWrites + n

\* C20: the rows of the grid are written for day-in-week 6 down to 0; a row
\* is its label, then exactly 28 cells for the weeks 27 down to 0, week 0
\* last, then the line end; the cell of a week that is not in the grid, or of
\* an entry its column does not have, is written as the placeholder of 0.
C20_RowsAndWeeksDescend ==
    Rendered =>
        \A cols \in { buildColumns(sortCommitKeys(inserted), commits) } :
            \A j \in GridDays :
                /\ out[C20_RowWrite(j, 1)].kind = "label"
                /\ out[C20_RowWrite(j, 1)].val = j
                /\ out[C20_RowWrite(j, RowWrites)].kind = "newline"
                /\ Cardinality({ n \in 1..RowWrites :
                                    out[C20_RowWrite(j, n)].kind = "cell" }) = 28
                /\ \A w \in 0..27 :
                      \A cell \in { out[C20_RowWrite(j, 1 + 28 - w)] } :
                          /\ cell.kind = "cell"
                          /\ IF w \in DOMAIN cols /\ j < Len(cols[w])
                             THEN cell.val = cols[w][j + 1]
                             ELSE cell.val = 0 /\ cell.text = " - "

\* week 26 is in the grid with three entries: the row of day 2 shows its
\* commit ahead of the 26 cells of the nearer weeks, and the row of day 3 the
\* placeholder
C20_Witness ==
    /\ Rendered
    /\ out[C20_RowWrite(2, 3)].val = 1
    /\ out[C20_RowWrite(3, 3)].val = 0
    /\ out[C20_RowWrite(2, 3)].style = "low"

\* ---------------------------------------------------------------- C21
\* the weekday of the clock, Sunday = 0 .. Saturday = 6, counted from Sunday
\* 2026-11-01
C21_Weekday == (now.day - BaseDay) % 7

\* C21: calcWeekOffset returns 7 minus the current weekday: a number in 1..7,
\* never 0, 7 on a Sunday and 1 on a Saturday.
C21_SevenMinusWeekday ==
    pc = "called" =>
        /\ result = 7 - C21_Weekday
        /\ result \in 1..7
        /\ result # 0
        /\ C21_Weekday = 0 => result = 7
        /\ C21_Weekday = 6 => result = 1

\* the call was made late on a Saturday
C21_Witness ==
    /\ pc = "called"
    /\ now = Date(BaseDay + 6, 23)
    /\ result = 1

\* ---------------------------------------------------------------- C22
\* an event of the target author whose timestamp parses and lies no more than
\* 183 calendar days back
C22_InWindow(e) ==
    /\ e.author_email = TargetEmail
    /\ e.date.parses
    /\ now.day - e.date.day <= DAYS_IN_LAST_SIX_MONTHS

\* the events of the repositories whose retrieval succeeded, a repository
\* listed twice contributing its events twice
C22_Matching == SelectSeq(Flatten(ResolvedLogs(retrieved)), C22_InWindow)

\* C22: after aggregation the sum of all counts of the map equals the number
\* of events, over the repositories whose retrieval succeeded, that have the
\* target email and a timestamp within the 183-day window.
C22_SumIsMatchingEvents ==
    Aggregated => SumValues(commits) = Len(C22_Matching)

\* ---------------------------------------------------------------- C23
\* C23: every key stored in the map by aggregation is an integer in 1..190,
\* at least the week offset and at most 183 plus the week offset, whatever
\* the timestamps of the events processed.
C23_KeysInRange ==
    \A x \in DOMAIN commits :
        /\ ~isNaN(x)
        /\ x \in 1..(DAYS_IN_LAST_SIX_MONTHS + DAYS_PER_WEEK)

\* ---------------------------------------------------------------- C24
\* no event of a retrieved log has the target email; so it is when every
\* git.log() call rejected
C24_NoEventMatches ==
    \A e \in Range(Flatten(ResolvedLogs(retrieved))) : e.author_email # TargetEmail

\* the output is the banner followed by a whole rendering: the title, the
\* month headers, seven rows of cells, the legend, and the total line last
C24_Rendering ==
    /\ Len(out) = GridStart + DAYS_PER_WEEK * RowWrites + Len(printLegend) + 1
    /\ out[1] = Line("analyzing")
    /\ out[2] = Line("title")
    /\ out[3].kind = "months"
    /\ \A w \in GridWeeks : \A j \in GridDays : OutCell(w, j).kind = "cell"
    /\ SubSeq(out, Len(out) - Len(printLegend), Len(out) - 1) = printLegend
    /\ out[Len(out)].kind = "total"

\* C24: with a registry that is not empty, generateStats always ends by
\* rendering the grid, the legend and the total line; when every repository
\* fails or no event is of the target author the map holds 183 zero counts
\* and the total is 0; the "no repositories" message is written only when
\* the registry is empty.
C24_AlwaysRenders ==
    /\ (Len(repos) > 0) ~> (pc = "done" /\ C24_Rendering)
    /\ []((pc = "done" /\ Len(repos) > 0) =>
            /\ C24_Rendering
            /\ C24_NoEventMatches =>
                  /\ commits = InitialCommits
                  /\ out[Len(out)].val = 0)
    /\ [](\A n \in 1..Len(out) : out[n].kind = "norepos" => Len(repos) = 0)
====
